---- MODULE Spec2Model ----
(***************************************************************************)
(* Model of the declarative HTTP API test runner of src/main.py            *)
(* (class TestRunner): template lookup, placeholder substitution, the      *)
(* before/after command protocol, the recursive comparison and the suite   *)
(* loop.                                                                   *)
(*                                                                         *)
(* Python values are tagged records [t, s, kids]:                          *)
(*   t    the Python type ("str", "int", "bool", "NoneType", "dict",       *)
(*        "list", "RuntimeError"),                                         *)
(*   s    the text of a scalar as a sequence of tokens (a token is a       *)
(*        brace, a blank, or a run of other characters),                   *)
(*   kids the items of a dict (key, value, in insertion order) or the      *)
(*        elements of a list (key None).                                   *)
(* A call returns a result record [st, val, exc]: st = "ok" with the value *)
(* or st = "raise" with the exception [type, arg, src].                    *)
(***************************************************************************)
EXTENDS Integers, Sequences, FiniteSets, TLC

VARIABLES
    self_requests,   \* self.requests: the `requests` collection (a list)
    self_tests,      \* self.tests: the `tests` collection (a list)
    self_variables,  \* self.variables: the persistent Environment (a dict)
    pc,              \* position of run_all_tests / run_test
    i,               \* loop index of run_all_tests (0-based)
    name,            \* local `name` of run_all_tests (Unbound before line 184)
    test,            \* local `test` of run_all_tests / run_test
    request,         \* local `request` of run_test
    response,        \* local `response` of run_test
    expect,          \* local `expect` of run_test
    out,             \* lines printed to standard output
    sent,            \* requests handed to the HTTP transport
    exc,             \* exception caught by, or escaped from, run_all_tests
    trace,           \* history: what happened to which test, in order
    sub,             \* history: the last vars_replace call of dict_get_replaced
    call,            \* API harness: the pending direct method call
    ret              \* API harness: its result

vars == <<self_requests, self_tests, self_variables, pc, i, name, test, request,
          response, expect, out, sent, exc, trace, sub, call, ret>>

-----------------------------------------------------------------------------
(* Python values *)

None == [t |-> "NoneType", s |-> <<>>, kids |-> <<>>]
Str(s) == [t |-> "str", s |-> s, kids |-> <<>>]
S(tok) == Str(<<tok>>)
Int_(tok) == [t |-> "int", s |-> <<tok>>, kids |-> <<>>]
Bool_(tok) == [t |-> "bool", s |-> <<tok>>, kids |-> <<>>]
KV(k, v) == [k |-> S(k), v |-> v]
Dict(items) == [t |-> "dict", s |-> <<>>, kids |-> items]
List(elems) == [t |-> "list", s |-> <<>>,
                kids |-> [n \in 1..Len(elems) |-> [k |-> None, v |-> elems[n]]]]
Elems(l) == [n \in 1..Len(l.kids) |-> l.kids[n].v]

\* `for x in v`: the elements of a list, the keys of a dict, the characters
\* of a str
Iterable(v) == v.t \in {"list", "dict", "str"}
Iter(v) ==
    IF v.t = "list" THEN Elems(v)
    ELSE IF v.t = "dict" THEN [n \in 1..Len(v.kids) |-> v.kids[n].k]
    ELSE [n \in 1..Len(v.s) |-> S(v.s[n])]

NoExc == [type |-> "", arg |-> None, src |-> ""]
Ok(v) == [st |-> "ok", val |-> v, exc |-> NoExc]
Raise(type, arg, src) ==
    [st |-> "raise", val |-> None, exc |-> [type |-> type, arg |-> arg, src |-> src]]

(* dict operations *)
RECURSIVE IndexOf(_, _, _)
IndexOf(items, k, n) ==
    IF n > Len(items) THEN 0
    ELSE IF items[n].k = k THEN n ELSE IndexOf(items, k, n + 1)

Has(d, k) == IndexOf(d.kids, k, 1) # 0
Item(d, k) == d.kids[IndexOf(d.kids, k, 1)].v
Get(d, k, default) == IF Has(d, k) THEN Item(d, k) ELSE default
Keys(d) == {d.kids[n].k : n \in 1..Len(d.kids)}

\* d[k] = v: an existing key keeps its position, a new key is appended
SetItem(d, k, v) ==
    IF Has(d, k)
    THEN [d EXCEPT !.kids[IndexOf(d.kids, k, 1)].v = v]
    ELSE [d EXCEPT !.kids = Append(d.kids, [k |-> k, v |-> v])]

\* a | b: the keys of a in their positions, with the value of b where b has
\* the key, then the other keys of b in their order
Merge(a, b) ==
    [a EXCEPT !.kids =
        [n \in 1..Len(a.kids) |->
            IF Has(b, a.kids[n].k)
            THEN [k |-> a.kids[n].k, v |-> Item(b, a.kids[n].k)]
            ELSE a.kids[n]]
          \o SelectSeq(b.kids, LAMBDA kv : ~Has(a, kv.k))]

-----------------------------------------------------------------------------
(* str(), repr() *)

RECURSIVE Repr(_)
RECURSIVE ReprItems(_, _)
ReprItems(kids, isDict) ==
    IF kids = <<>> THEN <<>>
    ELSE (IF isDict THEN Repr(Head(kids).k) \o <<": ">> ELSE <<>>)
         \o Repr(Head(kids).v)
         \o (IF Len(kids) > 1 THEN <<", ">> ELSE <<>>)
         \o ReprItems(Tail(kids), isDict)
Repr(v) ==
    CASE v.t = "str" -> <<"'">> \o v.s \o <<"'">>
      [] v.t = "NoneType" -> <<"None">>
      [] v.t = "dict" -> <<"{">> \o ReprItems(v.kids, TRUE) \o <<"}">>
      [] v.t = "list" -> <<"[">> \o ReprItems(v.kids, FALSE) \o <<"]">>
      [] v.t = "RuntimeError" -> <<"RuntimeError(">> \o v.s \o <<")">>
      [] OTHER -> v.s

StrOf(v) == IF v.t \in {"str", "RuntimeError"} THEN v.s ELSE Repr(v)

-----------------------------------------------------------------------------
(* text operations used by string_vars_replace *)

Whitespace == {" ", "\t", "\n"}

\* position of the first "}" of s at or after n, 0 when there is none
RECURSIVE FirstClose(_, _)
FirstClose(s, n) ==
    IF n > Len(s) THEN 0
    ELSE IF s[n] = "}" THEN n ELSE FirstClose(s, n + 1)

\* re.findall('\{[^}]+\}', s)
RECURSIVE findall(_)
findall(s) ==
    IF s = <<>> THEN <<>>
    ELSE IF Head(s) = "{"
         THEN LET close == FirstClose(s, 2)
              IN  IF close >= 3
                  THEN <<SubSeq(s, 1, close)>> \o findall(SubSeq(s, close + 1, Len(s)))
                  ELSE findall(Tail(s))
         ELSE findall(Tail(s))

RECURSIVE lstrip(_)
lstrip(s) == IF s # <<>> /\ Head(s) \in Whitespace THEN lstrip(Tail(s)) ELSE s
RECURSIVE rstrip(_)
rstrip(s) ==
    IF s # <<>> /\ s[Len(s)] \in Whitespace THEN rstrip(SubSeq(s, 1, Len(s) - 1)) ELSE s
strip(s) == rstrip(lstrip(s))

\* s.replace(old, new): every non-overlapping occurrence, left to right;
\* replace_from is the scan from position n on
RECURSIVE replace_from(_, _, _, _)
replace_from(s, old, new, n) ==
    IF Len(s) - n + 1 < Len(old) THEN SubSeq(s, n, Len(s))
    ELSE IF SubSeq(s, n, n + Len(old) - 1) = old
         THEN new \o replace_from(s, old, new, n + Len(old))
         ELSE <<s[n]>> \o replace_from(s, old, new, n + 1)
replace(s, old, new) == replace_from(s, old, new, 1)

-----------------------------------------------------------------------------
(* TestRunner.find_item, find_request, find_test *)

\* the value `RuntimeError(f'no item "{key}" found')`, which cites the key
NoItemFound(key) ==
    [t |-> "RuntimeError", s |-> <<"no item \"">> \o StrOf(key) \o <<"\" found">>,
     kids |-> <<>>]

\* line 23: `self.find_item(match['inherit'])`. The subscript is evaluated
\* first (KeyError when the item has no `inherit`); the call then binds one
\* positional argument to `haystack` and none to `key`.
find_item_line23(match) ==
    IF ~Has(match, S("inherit"))
    THEN Raise("KeyError", S("inherit"), "find_item:23")
    ELSE Raise("TypeError", S("find_item() missing 1 required positional argument: 'key'"),
               "find_item:23")

RECURSIVE find_item_loop(_, _, _)
find_item_loop(haystack, key, n) ==
    IF n > Len(haystack.kids)
    THEN Ok(NoItemFound(key))
    ELSE LET item == haystack.kids[n].v
         IN  IF item.t # "dict"
             THEN Raise("TypeError", S("indices must be integers"), "find_item:19")
             ELSE IF ~Has(item, S("name"))
             THEN Raise("KeyError", S("name"), "find_item:19")
             ELSE IF Item(item, S("name")) = key
             THEN LET parent == find_item_line23(item)
                  IN  IF parent.st = "ok"
                      THEN Ok(Merge(parent.val, item))
                      ELSE IF parent.exc.type = "KeyError"
                      THEN Ok(item)
                      ELSE parent
             ELSE find_item_loop(haystack, key, n + 1)

find_item(haystack, key) ==
    IF ~Iterable(haystack)
    THEN Raise("TypeError", S("object is not iterable"), "find_item:18")
    ELSE find_item_loop(List(Iter(haystack)), key, 1)

find_request(key) == find_item(self_requests, key)

find_test(key) == find_item(self_tests, key)

-----------------------------------------------------------------------------
(* TestRunner.string_vars_replace, vars_replace, dict_get_replaced.  Where
   a result is used more than once it is bound as the one element of a set,
   CHOOSE res \in {f(r) : r \in {e}} : TRUE being f(e) with e computed once. *)

\* lines 36-45: the loop over the placeholders found in the original string.
\* The lookup reads self.variables, whatever `variables` was passed.
RECURSIVE string_vars_replace_loop(_, _, _)
string_vars_replace_loop(vars_, string, variables) ==
    IF vars_ = <<>> THEN Ok(Str(string))
    ELSE LET var == Head(vars_)
             key == Str(strip(SubSeq(var, 2, Len(var) - 1)))
         IN  IF ~Has(self_variables, key)
             THEN Raise("KeyError", key, "string_vars_replace:44")
             ELSE LET value == Item(self_variables, key)
                  IN  IF value.t # "str"
                      THEN Raise("TypeError", S("replace() argument 2 must be str"),
                                 "string_vars_replace:45")
                      ELSE string_vars_replace_loop(Tail(vars_),
                                                    replace(string, var, value.s),
                                                    variables)

\* the method with `return string` indented into the body of its loop
string_vars_replace_return_in_loop(string, variables) ==
    LET vars_ == findall(string)
    IN  IF vars_ = <<>> THEN Ok(Str(string))
        ELSE LET var == Head(vars_)
                 key == Str(strip(SubSeq(var, 2, Len(var) - 1)))
             IN  IF ~Has(self_variables, key)
                 THEN Raise("KeyError", key, "string_vars_replace:44")
                 ELSE LET value == Item(self_variables, key)
                      IN  IF value.t # "str"
                          THEN Raise("TypeError", S("replace() argument 2 must be str"),
                                     "string_vars_replace:45")
                          ELSE Ok(Str(replace(string, var, value.s)))

string_vars_replace(string, variables) ==
    string_vars_replace_loop(findall(string), string,
                             IF variables = None THEN self_variables ELSE variables)

RECURSIVE vars_replace(_, _)
RECURSIVE vars_replace_kids(_, _)
\* the items of a dict (line 51-52) or the elements of a list (line 54), in
\* order; the recursive calls pass no `variables`
vars_replace_kids(kids, done) ==
    IF kids = <<>> THEN Ok([t |-> "list", s |-> <<>>, kids |-> done])
    ELSE CHOOSE res \in
           {IF r.st # "ok" THEN r
            ELSE vars_replace_kids(Tail(kids),
                                   Append(done, [k |-> Head(kids).k, v |-> r.val])) :
              r \in {vars_replace(Head(kids).v, None)}} : TRUE
vars_replace(subject, variables) ==
    IF subject.t \in {"dict", "list"}
    THEN LET r == vars_replace_kids(subject.kids, <<>>)
         IN  IF r.st # "ok" THEN r ELSE Ok([r.val EXCEPT !.t = subject.t])
    ELSE IF subject.t \in {"str", "int", "float", "bool"}
    THEN string_vars_replace(StrOf(subject), None)
    ELSE Ok(subject)

dict_get_replaced(subject, key, additional_variables, default) ==
    IF subject.t # "dict"
    THEN Raise("AttributeError", S("object has no attribute 'get'"), "dict_get_replaced:141")
    ELSE CHOOSE res \in
           {IF result = None THEN Ok(default)
            ELSE vars_replace(result, Merge(self_variables, additional_variables)) :
              result \in {Get(subject, key, None)}} : TRUE

-----------------------------------------------------------------------------
(* TestRunner.compare_recursive *)

\* `actual[key]` for a key that is a str (the keys of the modelled
\* configurations are strings): a dict looks the key up, everything else
\* rejects a str subscript
Subscript(actual, key, src) ==
    IF actual.t = "dict"
    THEN IF Has(actual, key) THEN Ok(Item(actual, key)) ELSE Raise("KeyError", key, src)
    ELSE Raise("TypeError", S("indices must be integers / not subscriptable"), src)

RECURSIVE compare_recursive(_, _, _)
RECURSIVE compare_recursive_keys(_, _, _, _)
\* lines 191-195: the loop over expected.keys()
compare_recursive_keys(kids, expected, actual, path) ==
    IF kids = <<>> THEN Ok(None)
    ELSE LET key == Head(kids).k
             sub_path == path \o <<".">> \o StrOf(key)
             a == Subscript(actual, key, "compare_recursive:193")
         IN  IF a.st # "ok"
             THEN IF a.exc.type = "KeyError"
                  THEN Raise("ComparisonException", Str(sub_path), "compare_recursive:195")
                  ELSE a
             ELSE LET r == compare_recursive(Item(expected, key), a.val, sub_path)
                  IN  IF r.st # "ok" THEN r
                      ELSE compare_recursive_keys(Tail(kids), expected, actual, path)
compare_recursive(expected, actual, path) ==
    IF expected.t = "dict"
    THEN compare_recursive_keys(expected.kids, expected, actual, path)
    ELSE IF StrOf(expected) # StrOf(actual)
    THEN Raise("ComparisonException", Str(path), "compare_recursive:199")
    ELSE Ok(None)

-----------------------------------------------------------------------------
(* TestRunner.ensure_list, run_set, run_commands *)

ensure_list(item) == IF item.t = "list" THEN item ELSE List(<<item>>)

Hashable(v) == v.t \notin {"dict", "list"}

\* lines 125-126: returns the Environment as the loop left it, and how the
\* loop ended.  `self.variables[command['key']] = command['value']`
\* evaluates the value, then the key, then stores.
RECURSIVE run_set_loop(_, _)
run_set_loop(commands, variables) ==
    IF commands = <<>> THEN [variables |-> variables, res |-> Ok(None)]
    ELSE LET command == Head(commands)
             value == Subscript(command, S("value"), "run_set:126")
             key == Subscript(command, S("key"), "run_set:126")
         IN  IF value.st # "ok" THEN [variables |-> variables, res |-> value]
             ELSE IF key.st # "ok" THEN [variables |-> variables, res |-> key]
             ELSE IF ~Hashable(key.val)
             THEN [variables |-> variables,
                   res |-> Raise("TypeError", S("unhashable type"), "run_set:126")]
             ELSE run_set_loop(Tail(commands), SetItem(variables, key.val, value.val))

\* run_set storing into a copy of the Environment
run_set_on_copy(set) ==
    [variables |-> self_variables,
     res |-> run_set_loop(Elems(ensure_list(set)), self_variables).res]

run_set(set) == run_set_loop(Elems(ensure_list(set)), self_variables)

\* the only handler is 'set'; a KeyError out of `commands['set']` or out of
\* run_set is swallowed (line 137), with the stores made so far kept
run_commands(commands) ==
    IF commands = None THEN [variables |-> self_variables, res |-> Ok(None)]
    ELSE LET set == Subscript(commands, S("set"), "run_commands:136")
         IN  IF set.st # "ok"
             THEN [variables |-> self_variables,
                   res |-> IF set.exc.type = "KeyError" THEN Ok(None) ELSE set]
             ELSE LET r == run_set(set.val)
                  IN  IF r.res.st # "ok" /\ r.res.exc.type = "KeyError"
                      THEN [r EXCEPT !.res = Ok(None)]
                      ELSE r

-----------------------------------------------------------------------------
(* TestRunner.send_request *)

\* lines 71-72: dict(map(lambda header: (header['key'], header['value']), headers))
RECURSIVE headers_dict(_, _)
headers_dict(headers, done) ==
    IF headers = <<>> THEN Ok(done)
    ELSE LET key == Subscript(Head(headers), S("key"), "send_request:71")
             value == Subscript(Head(headers), S("value"), "send_request:71")
         IN  IF key.st # "ok" THEN key
             ELSE IF value.st # "ok" THEN value
             ELSE IF ~Hashable(key.val)
             THEN Raise("TypeError", S("unhashable type"), "send_request:72")
             ELSE headers_dict(Tail(headers), SetItem(done, key.val, value.val))

\* the call that send_request hands to requests.request (lines 67-72), or
\* the exception raised while building it
send_request_call(req) ==
    LET method == Get(req, S("method"), S("GET"))
        payload == Get(req, S("payload"), None)
        headers == Get(req, S("headers"), List(<<>>))
    IN  IF ~Has(req, S("url"))
        THEN Raise("KeyError", S("url"), "send_request:68")
        ELSE IF ~Iterable(headers)
        THEN Raise("TypeError", S("object is not iterable"), "send_request:71")
        ELSE LET h == headers_dict(Iter(headers), Dict(<<>>))
             IN  IF h.st # "ok" THEN h
                 ELSE Ok(Dict(<<KV("method", method), KV("url", Item(req, S("url"))),
                                KV("json", payload), KV("headers", h.val)>>))

\* http is what the transport does with the call: it raises, or answers with
\* a status code, a body text and possibly a JSON-parsable body (lines 74-92)
send_request(req, http) ==
    LET c == send_request_call(req)
    IN  IF c.st # "ok" THEN c
        ELSE IF http.raises
        THEN Raise("ConnectionError", S("transport"), "send_request:74")
        ELSE Ok(Dict(<<KV("http_code", http.status_code),
                       KV("text", http.text),
                       KV("json", IF http.is_json THEN http.json ELSE Dict(<<>>))>>))

-----------------------------------------------------------------------------
(* printed lines *)

Line(label, what, n, e) == [label |-> label, what |-> what, name |-> n, exc |-> e]
\* print(f'running test {name}')
RunningLine(n) == Line("", "running test", n, NoExc)
\* print_label_ok(f'Test {name}')
OkLine(n) == Line("SUCCESS", "Test", n, NoExc)
\* print_label_fail(e)
MismatchLine(e) == Line("FAIL", "", None, e)
\* print_label_fail(f'Test {name}')
FailLine(n) == Line("FAIL", "Test", n, NoExc)
\* print_label_fail(f'Error running test "{name}": {e}')
ErrorLine(n, e) == Line("FAIL", "Error running test", n, e)

Unbound == [t |-> "unbound", s |-> <<>>, kids |-> <<>>]
NoCall == [op |-> "", a |-> None, b |-> None, c |-> None]
NoSub == [key |-> "", subject |-> None, variables |-> None, additional |-> None,
          res |-> Ok(None)]
Event(ev, n) == [ev |-> ev, i |-> n]
\* subject.get(key) as the history records it (None for a subject without get)
Field(subject, key) == IF subject.t = "dict" THEN Get(subject, key, None) ELSE None
SubCall(key, subject, additional, res) ==
    [key |-> key, subject |-> subject, variables |-> self_variables,
     additional |-> additional, res |-> res]

-----------------------------------------------------------------------------
(* bounds and modelled inputs *)

MaxTests == 3
MaxItems == 2
MaxLen == 3
MaxLiveTests == 2

\* what the HTTP transport may do with a call
Http(code, text, is_json, json) ==
    [raises |-> FALSE, status_code |-> Int_(code), text |-> Str(text),
     is_json |-> is_json, json |-> json]
HttpOutcomes ==
    { [raises |-> TRUE, status_code |-> Int_("0"), text |-> Str(<<>>),
       is_json |-> FALSE, json |-> None],
      Http("200", <<"ok">>, FALSE, None),
      Http("404", <<"ok">>, FALSE, None),
      Http("200", <<"{", "\"a\": 5", "}">>, TRUE, Dict(<<KV("a", Int_("5"))>>)),
      Http("200", <<"{", "\"a\": ", "{", "\"b\": 1", "}", "}">>, TRUE,
           Dict(<<KV("a", Dict(<<KV("b", Int_("1"))>>))>>)) }

Url == Dict(<<KV("url", S("u"))>>)
SetCmd(k, v) == Dict(<<KV("set", Dict(<<KV("key", k), KV("value", v)>>))>>)

\* the `requests` collection of the modelled configurations
ConfigRequests ==
    List(<<Dict(<<KV("name", S("base")), KV("inherit", S("login")), KV("url", S("u"))>>),
           Dict(<<KV("name", S("login")), KV("inherit", S("base")),
                  KV("method", S("POST"))>>)>>)

\* the tests a modelled configuration is made of
TestCatalogue ==
    { \* 1: plain request, expects the body text
      Dict(<<KV("name", S("t1")), KV("request", Url),
             KV("expect", Dict(<<KV("text", S("ok"))>>))>>),
      \* 2: no request, `before` sets a
      Dict(<<KV("name", S("t2")), KV("before", SetCmd(S("a"), S("1")))>>),
      \* 3: no name; explicit http_code; `after` uses {a}
      Dict(<<KV("request", Url),
             KV("expect", Dict(<<KV("http_code", Int_("404"))>>)),
             KV("after", SetCmd(S("b"), Str(<<"x", "{", " ", "a", "}">>)))>>),
      \* 4: `expect` refers to the response text
      Dict(<<KV("name", S("t4")), KV("request", Url),
             KV("expect", Dict(<<KV("text", Str(<<"{", "text", "}">>))>>))>>),
      \* 5: `after` refers to the response status; `before` overwrites a
      Dict(<<KV("name", S("t5")), KV("before", SetCmd(S("a"), S("2"))),
             KV("request", Url),
             KV("after", SetCmd(S("c"), Str(<<"{", "http_code", "}">>)))>>),
      \* 6: request named by a string
      Dict(<<KV("name", S("t6")), KV("request", S("login"))>>),
      \* 7: request that is neither a string nor a mapping
      Dict(<<KV("name", S("t7")), KV("request", List(<<S("u")>>))>>),
      \* 8: `expect` has a mapping below json.a
      Dict(<<KV("name", S("t8")), KV("request", Url),
             KV("expect", Dict(<<KV("json",
                 Dict(<<KV("a", Dict(<<KV("b", Int_("1"))>>))>>))>>))>>),
      \* 9: no request, `before` sets a to null
      Dict(<<KV("name", S("t9")), KV("before", SetCmd(S("a"), None))>>),
      \* 10: name with two placeholders, request uses {zz}, explicit http_code 200
      Dict(<<KV("name", Str(<<"{", "a", "}", "{", "zz", "}">>)),
             KV("request", Dict(<<KV("url", Str(<<"{", "zz", "}">>))>>)),
             KV("expect", Dict(<<KV("http_code", Int_("200"))>>))>>) }

RECURSIVE SeqsUpTo(_, _)
SeqsUpTo(set, n) ==
    IF n = 0 THEN {<<>>}
    ELSE LET shorter == SeqsUpTo(set, n - 1)
         IN  shorter \cup {Append(q, x) : q \in shorter, x \in set}

\* the seed definitions (-d key=value): strings
Seeds == { Dict(<<>>), Dict(<<KV("zz", S("9"))>>) }

-----------------------------------------------------------------------------
(* TestRunner.run_all_tests and run_test, one action per phase.  A result
   that an action uses more than once is bound by \E over a singleton set,
   which makes TLC compute it once. *)

Init ==
    /\ self_requests = ConfigRequests
    /\ self_tests \in {List(q) : q \in SeqsUpTo(TestCatalogue, MaxTests) \ {<<>>}}
    /\ self_variables \in Seeds
    /\ pc = "loop"
    /\ i = 0
    /\ name = Unbound
    /\ test = None
    /\ request = None
    /\ response = None
    /\ expect = None
    /\ out = <<>>
    /\ sent = <<>>
    /\ exc = NoExc
    /\ trace = <<>>
    /\ sub = NoSub
    /\ call = NoCall
    /\ ret = Ok(None)

\* a handler that swallows the exception and leaves the run where it was
Handler_swallow(e) ==
    /\ exc' = e
    /\ UNCHANGED <<pc, out, trace>>

\* lines 186-187: `except Exception as e` prints one line built from the
\* local `name`; while `name` is unbound the handler itself raises and the
\* exception escapes run_all_tests
Handler(e) ==
    /\ exc' = e
    /\ pc' = IF name = Unbound THEN "crashed" ELSE "aborted"
    /\ out' = IF name = Unbound THEN out ELSE Append(out, ErrorLine(name, e))
    /\ trace' = Append(trace, Event("error", i))

\* vars_replace without line 50, assigning the replaced items to the mapping
\* it was given
vars_replace_in_place(subject) ==
    LET r == vars_replace(subject, None)
    IN  IF subject.t = "dict" /\ r.st = "ok" THEN r.val ELSE subject

\* the object passed to vars_replace, after the call: line 50 assigns the
\* replaced items to a copy of a mapping, line 54 builds a new list, and a
\* scalar is immutable
vars_replace_subject(subject) == subject

\* self.tests after dict_get_replaced(test, key): the value under `key` of
\* the test, an item of self.tests, is the object given to vars_replace
self_tests_after(key) ==
    LET t == self_tests.kids[i + 1].v
    IN  IF t.t = "dict" /\ Has(t, key) /\ Item(t, key) # None
        THEN [self_tests EXCEPT
                !.kids[i + 1].v = SetItem(t, key, vars_replace_subject(Item(t, key)))]
        ELSE self_tests

\* line 147-148
run_test_resolve(t) == IF t.t = "str" THEN find_test(t) ELSE Ok(t)

\* lines 182-185 and 146-150: next test, its display name, `running test`
Loop ==
    /\ pc = "loop"
    /\ UNCHANGED <<self_requests, self_variables, request, response,
                   expect, sent, call, ret>>
    /\ IF i >= Len(self_tests.kids)
       THEN /\ pc' = "done"
            /\ UNCHANGED <<self_tests, i, name, test, out, exc, trace, sub>>
       ELSE \E t \in {self_tests.kids[i + 1].v} :
            \E r \in {dict_get_replaced(t, S("name"), Dict(<<>>),
                                         Str(<<"Test #", ToString(i + 1)>>))} :
            \E resolved \in {run_test_resolve(t)} :
                /\ sub' = SubCall("name", Field(t, S("name")), Dict(<<>>), r)
                /\ self_tests' = self_tests_after(S("name"))
                /\ UNCHANGED i
                /\ IF r.st # "ok"
                   THEN /\ Handler(r.exc)
                        /\ test' = t
                        /\ UNCHANGED name
                   ELSE IF resolved.st # "ok"
                   THEN /\ exc' = resolved.exc
                        /\ pc' = "aborted"
                        /\ out' = Append(out, ErrorLine(r.val, resolved.exc))
                        /\ trace' = Append(trace, Event("error", i))
                        /\ name' = r.val
                        /\ test' = t
                   ELSE /\ name' = r.val
                        /\ test' = resolved.val
                        /\ out' = Append(out, RunningLine(r.val))
                        /\ trace' = Append(trace, Event("begin", i))
                        /\ pc' = "before"
                        /\ UNCHANGED exc

\* line 152: run_commands(dict_get_replaced(test, 'before'))
Before ==
    /\ pc = "before"
    /\ UNCHANGED <<self_requests, i, name, test, request, response,
                   expect, sent, call, ret>>
    /\ self_tests' = self_tests_after(S("before"))
    /\ \E r \in {dict_get_replaced(test, S("before"), Dict(<<>>), None)} :
           /\ sub' = SubCall("before", Field(test, S("before")), Dict(<<>>), r)
           /\ IF r.st # "ok"
              THEN Handler(r.exc) /\ UNCHANGED self_variables
              ELSE \E c \in {run_commands(r.val)} :
                       /\ self_variables' = c.variables
                       /\ IF c.res.st # "ok"
                          THEN Handler(c.res.exc)
                          ELSE /\ pc' = "request"
                               /\ trace' = Append(trace, Event("before", i))
                               /\ UNCHANGED <<out, exc>>

\* line 157: `type(request) == 'str'` compares a type object with a str
TypeIsStr157(v) == FALSE

\* lines 157-163
run_test_request(replaced) ==
    IF TypeIsStr157(replaced) THEN find_request(replaced)
    ELSE IF replaced.t = "dict" THEN Ok(replaced)
    ELSE Raise("RuntimeError", S("unknown request type"), "run_test:163")

\* lines 153-163: the request of the test
Request ==
    /\ pc = "request"
    /\ UNCHANGED <<self_requests, self_variables, name, test, response,
                   expect, sent, call, ret>>
    /\ self_tests' = self_tests_after(S("request"))
    /\ \E r \in {dict_get_replaced(test, S("request"), Dict(<<>>), None)} :
           /\ sub' = SubCall("request", Field(test, S("request")), Dict(<<>>), r)
           /\ IF r.st # "ok"
              THEN Handler(r.exc) /\ UNCHANGED <<i, request>>
              ELSE IF r.val = None
              THEN \* line 156: return; back in the loop of run_all_tests
                   /\ pc' = "loop"
                   /\ i' = i + 1
                   /\ trace' = Append(trace, Event("norequest", i))
                   /\ UNCHANGED <<request, out, exc>>
              ELSE \E q \in {run_test_request(r.val)} :
                       IF q.st # "ok"
                       THEN /\ Handler(q.exc)
                            /\ request' = r.val
                            /\ UNCHANGED i
                       ELSE /\ request' = q.val
                            /\ pc' = "send"
                            /\ UNCHANGED <<i, out, exc, trace>>

\* line 165: response = self.send_request(request)
Send ==
    /\ pc = "send"
    /\ UNCHANGED <<self_requests, self_tests, self_variables, i, name, test, request,
                   expect, sub, call, ret>>
    /\ \E http \in HttpOutcomes :
         \E c \in {send_request_call(request)} :
         \E r \in {send_request(request, http)} :
             /\ sent' = IF c.st = "ok" THEN Append(sent, c.val) ELSE sent
             /\ IF r.st # "ok"
                THEN Handler(r.exc) /\ UNCHANGED response
                ELSE /\ response' = r.val
                     /\ pc' = "compare"
                     /\ trace' = Append(trace, Event("sent", i))
                     /\ UNCHANGED <<out, exc>>

\* the operands of line 169 swapped: expect | {'http_code': 200}
run_test_expect_default_swapped(replaced) ==
    IF replaced.t # "dict"
    THEN Raise("TypeError", S("unsupported operand type(s) for |"), "run_test:169")
    ELSE Ok(Merge(replaced, Dict(<<KV("http_code", Int_("200"))>>)))

\* line 169: expect = {'http_code': 200} | expect
run_test_expect_default(replaced) ==
    IF replaced.t # "dict"
    THEN Raise("TypeError", S("unsupported operand type(s) for |"), "run_test:169")
    ELSE Ok(Merge(Dict(<<KV("http_code", Int_("200"))>>), replaced))

\* run_test without its `except ComparisonException` clause
run_test_try_uncaught(c, n) ==
    IF c.st = "ok" THEN [lines |-> <<OkLine(n)>>, ev |-> "pass", res |-> Ok(None)]
    ELSE [lines |-> <<>>, ev |-> "error", res |-> c]

\* lines 171-176: the lines printed for the outcome c of compare_recursive,
\* and what leaves the try statement
run_test_try(c, n) ==
    IF c.st = "ok" THEN [lines |-> <<OkLine(n)>>, ev |-> "pass", res |-> Ok(None)]
    ELSE IF c.exc.type = "ComparisonException"
    THEN [lines |-> <<MismatchLine(c.exc), FailLine(n)>>, ev |-> "mismatch",
          res |-> Ok(None)]
    ELSE [lines |-> <<>>, ev |-> "error", res |-> c]

\* line 178 placed inside the try statement, after the comparison
run_test_after_in_try(ev) == IF ev = "mismatch" THEN "loop" ELSE "after"

\* the statement that follows the try statement of lines 171-176, for either
\* outcome of the comparison: line 178
run_test_after_try(ev) == "after"

\* line 144 with the overlay made in place: self.variables |= additional_variables
dict_get_replaced_update(subject, key, additional_variables) ==
    IF Field(subject, key) = None \/ additional_variables.t # "dict"
    THEN self_variables
    ELSE Merge(self_variables, additional_variables)

\* self.variables after dict_get_replaced: `self.variables | additional_variables`
\* at line 144 builds a new dict and leaves both operands as they are
dict_get_replaced_variables(subject, key, additional_variables) == self_variables

\* lines 167-176: expectation, default status, comparison, label
Compare ==
    /\ pc = "compare"
    /\ UNCHANGED <<self_requests, name, test, request,
                   response, sent, call, ret>>
    /\ self_variables' = dict_get_replaced_variables(test, S("expect"), response)
    /\ self_tests' = self_tests_after(S("expect"))
    /\ \E r \in {dict_get_replaced(test, S("expect"), response, Dict(<<>>))} :
       \E d \in {run_test_expect_default(r.val)} :
           /\ sub' = SubCall("expect", Field(test, S("expect")), response, r)
           /\ IF r.st # "ok" THEN Handler(r.exc) /\ UNCHANGED expect
              ELSE IF d.st # "ok" THEN Handler(d.exc) /\ UNCHANGED expect
              ELSE \E t \in {run_test_try(compare_recursive(d.val, response,
                                                              <<"expect">>), name)} :
                       /\ expect' = d.val
                       /\ IF t.res.st # "ok"
                          THEN Handler(t.res.exc)
                          ELSE /\ out' = out \o t.lines
                               /\ trace' = Append(trace, Event(t.ev, i))
                               /\ pc' = run_test_after_try(t.ev)
                               /\ UNCHANGED exc
    /\ i' = IF pc' = "loop" THEN i + 1 ELSE i

\* line 178: run_commands(dict_get_replaced(test, 'after', response))
After ==
    /\ pc = "after"
    /\ UNCHANGED <<self_requests, name, test, request, response, expect,
                   sent, call, ret>>
    /\ self_tests' = self_tests_after(S("after"))
    /\ \E r \in {dict_get_replaced(test, S("after"), response, None)} :
           /\ sub' = SubCall("after", Field(test, S("after")), response, r)
           /\ IF r.st # "ok"
              THEN Handler(r.exc) /\ UNCHANGED <<self_variables, i>>
              ELSE \E c \in {run_commands(r.val)} :
                       /\ self_variables' = c.variables
                       /\ IF c.res.st # "ok"
                          THEN Handler(c.res.exc) /\ UNCHANGED i
                          ELSE /\ pc' = "loop"
                               /\ i' = i + 1
                               /\ trace' = Append(trace, Event("after", i))
                               /\ UNCHANGED <<out, exc>>

Next == Loop \/ Before \/ Request \/ Send \/ Compare \/ After

Spec == Init /\ [][Next]_vars

-----------------------------------------------------------------------------
(* direct calls of the methods: find_item, compare_recursive, vars_replace *)

ApiCall(op, a, b, c) == [op |-> op, a |-> a, b |-> b, c |-> c]

\* collections for find_item: items with and without `inherit`
ParentItem == Dict(<<KV("name", S("P")), KV("a", Int_("1")), KV("b", Int_("2"))>>)
ChildItem ==
    Dict(<<KV("name", S("C")), KV("inherit", S("P")), KV("b", Int_("3")),
           KV("c", Int_("4"))>>)
GrandChildItem == Dict(<<KV("name", S("G")), KV("inherit", S("C")), KV("d", Int_("5"))>>)
SelfItem == Dict(<<KV("name", S("X")), KV("inherit", S("X"))>>)
ApiItems == {ParentItem, ChildItem, GrandChildItem, SelfItem}
ApiNames == {S("P"), S("C"), S("G"), S("X"), S("missing")}
ApiHaystacks == {List(q) : q \in SeqsUpTo(ApiItems, MaxItems)}

\* values for compare_recursive: nested mappings, scalars, a list
ApiLeaves == {Int_("200"), S("200"), S("ok"), None}
ApiInner ==
    ApiLeaves \cup {Dict(<<>>), List(<<S("ok")>>)}
      \cup {Dict(<<KV("b", v)>>) : v \in {Int_("1"), S("1"), S("2")}}
ApiMappings ==
    {Dict(<<>>)} \cup {Dict(<<KV("a", v)>>) : v \in ApiInner}
      \cup {Dict(<<KV("a", v), KV("c", w)>>) : v \in ApiInner, w \in {S("ok"), S("no")}}

\* subjects and environments for vars_replace
ApiTokens == {"{", "}", " ", "a", "b"}
ApiStrings == {Str(q) : q \in SeqsUpTo(ApiTokens, MaxLen)}
\* strings with two placeholders
ApiPlaceholders == {<<"{", "a", "}">>, <<"{", "b", "}">>, <<"{", " ", "a", "}">>}
ApiPairs == {Str(p \o q) : p \in ApiPlaceholders, q \in ApiPlaceholders}
ApiSubjects ==
    ApiStrings \cup ApiPairs \cup {None, Int_("1")}
      \cup {Dict(<<KV("x", v), KV("y", w)>>) :
              v \in {S("1"), Str(<<"{", "a", "}">>)}, w \in {Str(<<"{", "b", "}">>), None}}
      \cup {List(<<v, w>>) :
              v \in {Str(<<"{", "a", "}">>)}, w \in {Str(<<"{", " ", "b", "}">>)}}
ApiEnvs ==
    { Dict(<<>>),
      Dict(<<KV("a", S("1"))>>),
      Dict(<<KV("a", S("1")), KV("b", S("2"))>>),
      Dict(<<KV("a", Str(<<"{", "b", "}">>)), KV("b", S("2"))>>),
      Dict(<<KV("a", None)>>) }

ApiCalls ==
    {ApiCall("find_item", h, k, None) : h \in ApiHaystacks, k \in ApiNames}
      \cup {ApiCall("compare_recursive", e, a, Str(<<"expect">>)) :
              e \in ApiMappings, a \in ApiMappings}
      \cup {ApiCall("vars_replace", v, None, None) : v \in ApiSubjects}

InitApi ==
    /\ self_requests = ConfigRequests
    /\ self_tests = List(<<>>)
    /\ self_variables \in ApiEnvs
    /\ call \in ApiCalls
    /\ pc = "api"
    /\ i = 0
    /\ name = Unbound
    /\ test = None
    /\ request = None
    /\ response = None
    /\ expect = None
    /\ out = <<>>
    /\ sent = <<>>
    /\ exc = NoExc
    /\ trace = <<>>
    /\ sub = NoSub
    /\ ret = Ok(None)

ApiFrame ==
    UNCHANGED <<self_requests, self_tests, self_variables, i, name, test, request,
                response, expect, out, sent, exc, trace, sub, call>>

CallFindItem ==
    /\ pc = "api" /\ call.op = "find_item"
    /\ ret' = find_item(call.a, call.b)
    /\ pc' = "returned"
    /\ ApiFrame

CallCompareRecursive ==
    /\ pc = "api" /\ call.op = "compare_recursive"
    /\ ret' = compare_recursive(call.a, call.b, call.c.s)
    /\ pc' = "returned"
    /\ ApiFrame

CallVarsReplace ==
    /\ pc = "api" /\ call.op = "vars_replace"
    /\ ret' = vars_replace(call.a, call.b)
    /\ pc' = "returned"
    /\ ApiFrame

NextApi == CallFindItem \/ CallCompareRecursive \/ CallVarsReplace

SpecApi == InitApi /\ [][NextApi]_vars

-----------------------------------------------------------------------------
(* properties *)

NumTests == Len(self_tests.kids)
EventsOf(ev) == {p \in 1..Len(trace) : trace[p].ev = ev}
LastEv == IF trace = <<>> THEN Event("", 0 - 1) ELSE trace[Len(trace)]
Stopped == pc \in {"aborted", "crashed"}

\* C1: a Comparison Mismatch in test i is recovered inside run_test (the test
\* goes on to its `after` block and, unless that block fails for a reason of
\* its own, the loop takes test i+1), whereas every other exception raised
\* while test i is processed (a failed substitution included) ends the run:
\* the error is the last thing that ever happens, so no later test is begun,
\* and the exception that ended a run is never a Comparison Mismatch.
C1_MismatchContinuesOtherErrorsAbort ==
    /\ \A p \in 1..Len(trace) :
         /\ trace[p].ev = "error" =>
              /\ p = Len(trace)
              /\ Stopped
              /\ exc.type # "ComparisonException"
         /\ trace[p].ev = "mismatch" =>
              \/ p = Len(trace) /\ pc = "after" /\ i = trace[p].i
              \/ /\ p < Len(trace)
                 /\ trace[p + 1] = Event("after", trace[p].i)
              \/ /\ p + 1 = Len(trace)
                 /\ trace[p + 1] = Event("error", trace[p].i)
                 /\ sub.key = "after"
         /\ (trace[p].ev \in {"after", "norequest"} /\ trace[p].i + 1 < NumTests) =>
              \/ p = Len(trace) /\ pc = "loop" /\ i = trace[p].i + 1
              \/ /\ p < Len(trace)
                 /\ trace[p + 1].i = trace[p].i + 1
                 /\ trace[p + 1].ev \in {"begin", "error"}
    /\ Stopped => LastEv = Event("error", i)
    /\ sub.res.st = "raise" => Stopped /\ exc = sub.res.exc

\* the example of the specification: a mismatch in test #1, a Transport Error
\* in test #2 of 3, test #3 never begun
C1_Witness ==
    /\ NumTests = 3
    /\ pc = "aborted"
    /\ exc.type = "ConnectionError"
    /\ Event("mismatch", 0) \in {trace[p] : p \in 1..Len(trace)}
    /\ Event("begin", 1) \in {trace[p] : p \in 1..Len(trace)}
    /\ LastEv = Event("error", 1)
    /\ Event("begin", 2) \notin {trace[p] : p \in 1..Len(trace)}

\* C3: in `expect` and `after`, a placeholder that names a field of the
\* Response Record never fails as an undefined variable.
C3_ResponseFieldsResolve ==
    ~ /\ sub.key \in {"expect", "after"}
      /\ sub.res.st = "raise"
      /\ sub.res.exc.type = "KeyError"
      /\ sub.res.exc.arg \in Keys(sub.additional)

NamesRequest(v) ==
    \E n \in 1..Len(self_requests.kids) :
        Get(self_requests.kids[n].v, S("name"), None) = v

\* C4: a request given as a string that names an item of `requests` is
\* resolved by find_request and goes on to be sent, and 'unknown request
\* type' is raised only for a value that is neither a string nor a mapping.
C4_NamedRequestResolved ==
    /\ (sub.key = "request" /\ sub.res.st = "ok" /\ sub.res.val.t = "str"
          /\ NamesRequest(sub.res.val))
         => pc = "send" /\ Ok(request) = find_request(sub.res.val)
    /\ (Stopped /\ exc.src = "run_test:163") => request.t \notin {"str", "dict"}

Labels(label) == {q \in 1..Len(out) : out[q].label = label /\ out[q].what = "Test"}

\* C5: a test without `request` sends nothing, runs no comparison and no
\* `after` block, gets a SUCCESS label, and the loop takes the next test.
C5_NoRequestReportedAsPassing ==
    /\ \A p \in EventsOf("norequest") :
         /\ \A q \in 1..Len(trace) :
              trace[q].i = trace[p].i => trace[q].ev \in {"begin", "before", "norequest"}
         /\ p = Len(trace) => pc = "loop" /\ i = trace[p].i + 1
    /\ Cardinality(Labels("SUCCESS")) = Cardinality(EventsOf("pass") \cup EventsOf("norequest"))

\* the `set` commands of a substituted command block, as a sequence
SetCommandsOf(block) ==
    IF block.t = "dict" /\ Has(block, S("set"))
    THEN Elems(ensure_list(Item(block, S("set"))))
    ELSE <<>>
WellFormed(command) ==
    /\ command.t = "dict"
    /\ Has(command, S("key")) /\ Has(command, S("value"))
    /\ Hashable(Item(command, S("key")))
\* the commands that get executed: those before the first malformed one
RECURSIVE ExecutedPrefix(_)
ExecutedPrefix(commands) ==
    IF commands = <<>> \/ ~WellFormed(Head(commands)) THEN <<>>
    ELSE <<Head(commands)>> \o ExecutedPrefix(Tail(commands))
WrittenKeys(commands) == {Item(commands[n], S("key")) : n \in 1..Len(commands)}
LastWrite(commands, k) ==
    LET last == CHOOSE n \in 1..Len(commands) :
                  /\ Item(commands[n], S("key")) = k
                  /\ \A m \in (n + 1)..Len(commands) : Item(commands[m], S("key")) # k
    IN  Item(commands[last], S("value"))
\* the commands executed by the step being taken
StepWrites ==
    IF pc \in {"before", "after"} /\ sub'.res.st = "ok"
    THEN ExecutedPrefix(SetCommandsOf(sub'.res.val))
    ELSE <<>>

\* C6: every step keeps every Environment entry, with its value, except the
\* entries that a `set` command of the block executed in that step writes;
\* after the step the Environment holds what the last such command wrote;
\* this is so whatever the outcome of the comparison and also in the step
\* that aborts the suite.
C6_SetPersists ==
    [][ LET w == StepWrites
        IN  /\ \A k \in Keys(self_variables) :
                  /\ Has(self_variables', k)
                  /\ k \notin WrittenKeys(w)
                       => Item(self_variables', k) = Item(self_variables, k)
            /\ \A k \in Keys(self_variables') \ Keys(self_variables) :
                  k \in WrittenKeys(w)
            /\ \A k \in WrittenKeys(w) :
                  /\ Has(self_variables', k)
                  /\ Item(self_variables', k) = LastWrite(w, k)
      ]_vars

\* a test's `after` block has resolved {a} to the 1 that an earlier test's
\* `before` block set, a comparison has failed in between, and the value is
\* still there in the state in which the suite has aborted
C6_Witness ==
    /\ Has(self_variables, S("a")) /\ Item(self_variables, S("a")) = S("1")
    /\ Has(self_variables, S("b")) /\ Item(self_variables, S("b")) = Str(<<"x", "1">>)
    /\ EventsOf("mismatch") # {}
    /\ pc = "aborted"

CompareLines == {"compare_recursive:193", "compare_recursive:195", "compare_recursive:199"}

\* C7: whatever the expected and the actual value, an exception raised in
\* compare_recursive is a Comparison Mismatch that run_test recovers: none
\* reaches the handler of run_all_tests.
C7_CompareNeverFatal ==
    ~ (Stopped /\ exc.src \in CompareLines)

\* C9: the expected structure handed to the comparator has the default
\* http_code (the integer 200) exactly when the test's `expect` has no
\* http_code; an explicit http_code is the substituted value of the test's
\* own, and it is the one the comparison was decided on.
C9_DefaultOnlyWhenAbsent ==
    pc = "after" =>
      LET e == Field(test, S("expect"))
          explicit == e.t = "dict" /\ Has(e, S("http_code"))
          code == Item(expect, S("http_code"))
      IN  /\ Has(expect, S("http_code"))
          /\ (code = Int_("200")) <=> ~explicit
          /\ explicit => code = Item(sub.res.val, S("http_code"))
          /\ LastEv.ev = "pass" => StrOf(code) = StrOf(Item(response, S("http_code")))
          /\ (LastEv.ev = "mismatch"
                /\ out[Len(out) - 1].exc.arg = Str(<<"expect", ".", "http_code">>))
               => StrOf(code) # StrOf(Item(response, S("http_code")))

\* an explicit http_code 404 met by a 404 response: the test passes
C9_Witness ==
    /\ pc = "after"
    /\ Has(Field(test, S("expect")), S("http_code"))
    /\ Item(expect, S("http_code")) = S("404")
    /\ Item(response, S("http_code")) = Int_("404")
    /\ LastEv.ev = "pass"

\* the placeholder names of the scalars of a value that env does not define
RECURSIVE PlaceholderNames(_)
PlaceholderNames(v) ==
    IF v.t \in {"dict", "list"}
    THEN UNION {PlaceholderNames(v.kids[n].v) : n \in 1..Len(v.kids)}
    ELSE IF v.t \in {"str", "int", "float", "bool"}
    THEN LET found == findall(StrOf(v))
         IN  {Str(strip(SubSeq(found[n], 2, Len(found[n]) - 1))) : n \in 1..Len(found)}
    ELSE {}
UndefinedNames(v, env) == PlaceholderNames(v) \ Keys(env)

\* C10: a substitution of a value with a placeholder that the environment
\* does not define fails with an undefined-variable error naming such a key.
C10_UndefinedAlwaysReported ==
    (sub.key # "" /\ UndefinedNames(sub.subject, Merge(sub.variables, sub.additional)) # {})
      => /\ sub.res.st = "raise"
         /\ sub.res.exc.type = "KeyError"
         /\ sub.res.exc.arg
              \in UndefinedNames(sub.subject, Merge(sub.variables, sub.additional))

-----------------------------------------------------------------------------
(* properties of the methods called directly *)

MaxDepth == 3

\* the item named key with its parents' fields under its own, following
\* `inherit` at most fuel times: [ok, val]
RECURSIVE Resolved(_, _, _)
Resolved(haystack, key, fuel) ==
    LET items == Elems(haystack)
        hits == {n \in 1..Len(items) : Get(items[n], S("name"), None) = key}
    IN  IF hits = {} THEN [ok |-> FALSE, val |-> None]
        ELSE LET item == items[CHOOSE n \in hits : \A m \in hits : n <= m]
             IN  IF ~Has(item, S("inherit")) THEN [ok |-> TRUE, val |-> item]
                 ELSE IF fuel = 0 THEN [ok |-> FALSE, val |-> None]
                 ELSE LET parent == Resolved(haystack, Item(item, S("inherit")), fuel - 1)
                      IN  IF parent.ok
                          THEN [ok |-> TRUE, val |-> Merge(parent.val, item)]
                          ELSE parent

\* C2: find_item on an item that declares `inherit`, whose chain of parents
\* is in the collection, returns the parent's resolved fields overlaid with
\* the item's own.
C2_InheritMerges ==
    (pc = "returned" /\ call.op = "find_item") =>
      LET direct == Resolved(call.a, call.b, 0)
          full == Resolved(call.a, call.b, MaxDepth)
      IN  (~direct.ok /\ full.ok) => ret = Ok(full.val)

\* the path at which the comparison of expected with actual first fails, in
\* depth-first order of expected's keys; <<>> when it does not fail
RECURSIVE FirstFailure(_, _, _, _)
RECURSIVE FirstFailureKeys(_, _, _)
FirstFailureKeys(kids, actual, path) ==
    IF kids = <<>> THEN <<>>
    ELSE LET key == Head(kids).k
             present == actual.t = "dict" /\ Has(actual, key)
             f == FirstFailure(Head(kids).v, present,
                               IF present THEN Item(actual, key) ELSE None,
                               path \o <<".">> \o StrOf(key))
         IN  IF f # <<>> THEN f ELSE FirstFailureKeys(Tail(kids), actual, path)
FirstFailure(expected, present, actual, path) ==
    IF ~present THEN path
    ELSE IF expected.t = "dict" THEN FirstFailureKeys(expected.kids, actual, path)
    ELSE IF StrOf(expected) = StrOf(actual) THEN <<>> ELSE path

\* C8: for mappings expected and actual, compare_recursive succeeds exactly
\* when every key path of expected is in actual with an equal string form at
\* the leaves, and otherwise reports the first failing path.
C8_FirstMismatchReported ==
    (pc = "returned" /\ call.op = "compare_recursive") =>
      LET f == FirstFailure(call.a, TRUE, call.b, call.c.s)
      IN  IF f = <<>> THEN ret.st = "ok"
          ELSE /\ ret.st = "raise"
               /\ ret.exc.type = "ComparisonException"
               /\ ret.exc.arg = Str(f)

-----------------------------------------------------------------------------
(* lookup failure *)

AllNamed(haystack) ==
    \A n \in 1..Len(haystack.kids) :
        haystack.kids[n].v.t = "dict" /\ Has(haystack.kids[n].v, S("name"))
NoSuchItem(haystack, key) ==
    \A n \in 1..Len(haystack.kids) : Item(haystack.kids[n].v, S("name")) # key

\* C11: find_item for a name that no item of the collection has does not
\* return: it raises an error that cites the missing name.
C11_NotFoundRaises ==
    (pc = "returned" /\ call.op = "find_item"
       /\ AllNamed(call.a) /\ NoSuchItem(call.a, call.b))
      => /\ ret.st = "raise"
         /\ \E n \in 1..Len(ret.exc.arg.s) :
               SubSeq(ret.exc.arg.s, n, n + Len(call.b.s) - 1) = call.b.s

-----------------------------------------------------------------------------
(* the failure line of run_all_tests *)

ErrorLines == {q \in 1..Len(out) : out[q].what = "Error running test"}

\* C12: when an exception ends the run while test i is processed (the
\* substitution of its display name included), the handler of run_all_tests
\* itself completes, exactly one failure line is printed, it is the last
\* line, and the name in it is the display name that was substituted for
\* test i (not the name left over from an earlier test).
C12_ErrorLineNamesFailingTest ==
    LastEv.ev = "error"
      => /\ pc = "aborted"
         /\ Cardinality(ErrorLines) = 1
         /\ out[Len(out)] = ErrorLine(name, exc)
         /\ \E p \in EventsOf("begin") : trace[p].i = LastEv.i

-----------------------------------------------------------------------------
(* lines printed per test *)

RunningLines == {q \in 1..Len(out) : out[q].what = "running test"}
LabelLines(label) == {q \in 1..Len(out) : out[q].label = label}

\* C13: between two tests and at the end of a run that was not aborted, every
\* test begun so far has run to completion, and the output holds one
\* `running test` line and one labelled line per such test: as many SUCCESS
\* lines as comparisons that passed, as many FAIL lines as comparisons that
\* failed, and no test without a labelled line.
C13_OneLabelPerTest ==
    pc \in {"loop", "done"}
      => /\ Cardinality(RunningLines) = i
         /\ Cardinality(LabelLines("SUCCESS")) + Cardinality(LabelLines("FAIL")) = i
         /\ Cardinality(LabelLines("SUCCESS")) = Cardinality(EventsOf("pass"))
         /\ Cardinality(LabelLines("FAIL")) = Cardinality(EventsOf("mismatch"))

-----------------------------------------------------------------------------
(* order of the label and the `after` block *)

LastRunningLine == CHOOSE q \in RunningLines : \A r \in RunningLines : r <= q

\* C14: the label of a test is printed only once its `after` block has been
\* substituted and executed: while that block is still to run no label of the
\* test is in the output, and a test whose `after` block ended the run with
\* an exception has no SUCCESS line.
C14_LabelAfterAfterBlock ==
    /\ pc = "after" => \A q \in 1..Len(out) : q > LastRunningLine => out[q].label = ""
    /\ (LastEv.ev = "error" /\ sub.key = "after")
         => \A q \in 1..Len(out) : q > LastRunningLine => out[q].label # "SUCCESS"

-----------------------------------------------------------------------------
(* the `after` block after a mismatch *)

\* C15: a comparison that was carried out, whether it passed or failed, is
\* followed by the `after` block of the test: the next step substitutes that
\* block with the Response Record laid over the Environment and, when the
\* substitution succeeds, every key written by its executed `set` commands
\* holds the last value written to it.
C15_AfterRunsOnMismatch ==
    [][ /\ (trace' # trace /\ LastEv'.ev \in {"pass", "mismatch"}) => pc' = "after"
        /\ pc = "after"
             => /\ LastEv.ev \in {"pass", "mismatch"}
                /\ sub'.key = "after"
                /\ sub'.subject = Field(test, S("after"))
                /\ sub'.additional = response
                /\ \A k \in WrittenKeys(StepWrites) :
                      /\ Has(self_variables', k)
                      /\ Item(self_variables', k) = LastWrite(StepWrites, k) ]_vars

C15_Witness ==
    /\ Len(trace) >= 2
    /\ LastEv.ev = "after"
    /\ trace[Len(trace) - 1] = Event("mismatch", LastEv.i)
    /\ sub.key = "after"
    /\ SetCommandsOf(sub.res.val) # <<>>
    /\ Has(self_variables, S("b"))
    /\ Item(self_variables, S("b")) = Item(SetCommandsOf(sub.res.val)[1], S("value"))

-----------------------------------------------------------------------------
(* values of the Environment *)

\* C16: every value of the Environment is a string.
C16_EnvironmentHoldsStrings ==
    \A k \in Keys(self_variables) : Item(self_variables, k).t = "str"

-----------------------------------------------------------------------------
(* the Environment and the Response Record *)

ResponseFields == {S("http_code"), S("text"), S("json")}

\* C17: every step leaves the Environment with the keys it had plus the keys
\* written by the `set` commands executed in that step; the step that
\* evaluates `expect` with the Response Record laid over the Environment
\* leaves the Environment as it was; and a field name of the Response Record
\* becomes a key of the Environment only in a step whose `set` commands
\* write it.
C17_OverlayLeavesEnvironment ==
    [][ /\ Keys(self_variables') = Keys(self_variables) \cup WrittenKeys(StepWrites)
        /\ pc = "compare" => self_variables' = self_variables
        /\ \A f \in ResponseFields :
              (Has(self_variables', f) /\ ~Has(self_variables, f))
                 => f \in WrittenKeys(StepWrites) ]_vars

C17_Witness ==
    /\ pc = "after"
    /\ sub.key = "expect"
    /\ sub.subject # None
    /\ sub.additional = response
    /\ response.t = "dict"
    /\ self_variables = sub.variables
    /\ Keys(self_variables) # {}
    /\ Keys(self_variables) \cap ResponseFields = {}

-----------------------------------------------------------------------------
(* substitution in one string *)

Braces == {"{", "}"}
\* the placeholders of a string, as (text, trimmed name)
PlaceholdersOf(string) ==
    LET found == findall(string)
    IN  {[text |-> found[n], key |-> Str(strip(SubSeq(found[n], 2, Len(found[n]) - 1)))] :
           n \in 1..Len(found)}
AllDefined(string, env) == \A p \in PlaceholdersOf(string) : Has(env, p.key)
AllStrings(string, env) == \A p \in PlaceholdersOf(string) : Item(env, p.key).t = "str"
NoBraces(string, env) ==
    \A p \in PlaceholdersOf(string) :
        /\ \A n \in 1..Len(p.key.s) : p.key.s[n] \notin Braces
        /\ \A n \in 1..Len(Item(env, p.key).s) : Item(env, p.key).s[n] \notin Braces

\* one pass over the string: at every position where a placeholder begins,
\* the value of its trimmed name, and the scan goes on behind the
\* placeholder; any other character is copied
RECURSIVE SinglePass(_, _)
SinglePass(string, env) ==
    IF string = <<>> THEN <<>>
    ELSE LET ends == {n \in 3..Len(string) :
                        /\ string[n] = "}"
                        /\ \A m \in 2..(n - 1) : string[m] # "}"}
         IN  IF string[1] = "{" /\ ends # {}
             THEN LET n == CHOOSE n \in ends : TRUE
                  IN  Item(env, Str(strip(SubSeq(string, 2, n - 1)))).s
                        \o SinglePass(SubSeq(string, n + 1, Len(string)), env)
             ELSE <<string[1]>> \o SinglePass(Tail(string), env)

StringCall == pc = "returned" /\ call.op = "vars_replace" /\ call.a.t = "str"

\* C18 as stated: whenever every placeholder of the string is defined (with a
\* string value), the result is the single-pass replacement.
C18_SinglePass ==
    (StringCall /\ AllDefined(call.a.s, self_variables)
       /\ AllStrings(call.a.s, self_variables))
      => ret = Ok(Str(SinglePass(call.a.s, self_variables)))

\* C18, amended: a string without placeholders is returned as it is; when
\* every placeholder is defined, a value that is not a string makes the call
\* raise TypeError, and otherwise the call returns a string, which is the
\* single-pass replacement whenever neither the names nor the values of the
\* placeholders contain a brace.
C18_SinglePassWithoutBraces ==
    StringCall
      => /\ findall(call.a.s) = <<>> => ret = Ok(call.a)
         /\ AllDefined(call.a.s, self_variables)
              => IF AllStrings(call.a.s, self_variables)
                 THEN /\ ret.st = "ok" /\ ret.val.t = "str"
                      /\ NoBraces(call.a.s, self_variables)
                           => ret.val.s = SinglePass(call.a.s, self_variables)
                 ELSE ret.st = "raise" /\ ret.exc.type = "TypeError"

C18_Witness ==
    /\ StringCall
    /\ call.a = Str(<<"{", " ", "a", "}", "{", "b", "}">>)
    /\ self_variables = Dict(<<KV("a", S("1")), KV("b", S("2"))>>)
    /\ ret = Ok(Str(<<"1", "2">>))

-----------------------------------------------------------------------------
(* the configuration *)

\* C19: no step of a run changes the `tests` or the `requests` collection:
\* every configured item, with its nested mappings and sequences, is after
\* the step what it was before it.
C19_ConfigurationUnchanged ==
    [][self_tests' = self_tests /\ self_requests' = self_requests]_vars

C19_Witness ==
    /\ pc = "done"
    /\ LastEv.ev = "after"
    /\ sub.key = "after"
    /\ sub.res.st = "ok"
    /\ sub.res.val # sub.subject
    /\ self_tests.kids[NumTests].v = test
    /\ Field(test, S("after")) = sub.subject
    /\ self_variables # sub.variables

-----------------------------------------------------------------------------
(* termination *)

\* a run of run_all_tests or one direct call of a method, executed to its
\* end: the interpreter always takes the next step
InitLive ==
    \/ /\ Init
       /\ Len(self_tests.kids) <= MaxLiveTests
    \/ InitApi
NextLive == Next \/ NextApi
SpecLive == InitLive /\ [][NextLive]_vars /\ WF_vars(NextLive)

\* two items of a collection that name each other, or one that names itself,
\* in `inherit`
CyclicInherit(haystack) ==
    \E m, n \in 1..Len(haystack.kids) :
        /\ Field(haystack.kids[m].v, S("inherit")) = Field(haystack.kids[n].v, S("name"))
        /\ Field(haystack.kids[n].v, S("inherit")) = Field(haystack.kids[m].v, S("name"))
        /\ Field(haystack.kids[m].v, S("name")) # None

Terminal == pc \in {"done", "aborted", "crashed", "returned"}

\* C20: every run of run_all_tests, and every lookup by find_item, comes to
\* an end, whatever the configuration (`inherit` cycles included) and
\* whatever the HTTP calls answer: the tests are all processed, or an
\* exception has ended the run, or the call has returned or raised.
C20_RunTerminates == <>Terminal

C20_Witness ==
    /\ pc = "aborted"
    /\ CyclicInherit(self_requests)
    /\ \E n \in 1..Len(self_requests.kids) :
          Field(test, S("request")) = Field(self_requests.kids[n].v, S("name"))
    /\ out[Len(out)] = ErrorLine(name, exc)

====
